---- MODULE Spec2Model ----
(***************************************************************************)
(* passport-cerbere: the CerbereStrategy (lib/strategy.js, in its callback *)
(* and its async form) and the Cerbere client (lib/cerbere.js) it drives.  *)
(*                                                                         *)
(* The specifications share the variables below:                           *)
(*   SpecCtor      the two constructors                                    *)
(*   SpecAuth      Strategy.authenticate and a client following redirects  *)
(*   SpecProfile   one request whose ticket validates                      *)
(*   SpecValidate  the transport events of one Cerbere.validate call       *)
(*   SpecParse     the attribute parsers and the request body of validate  *)
(*   SpecConcurrent  several authenticate calls on one instance            *)
(***************************************************************************)
EXTENDS Integers, Sequences, FiniteSets, TLC

VARIABLES
    ctorArgs,   \* the arguments of the constructor call under way
    ctorOut,    \* what the constructor call produced
    impl,       \* which lib/strategy.js is deployed: "callback" or "async"
    propertyMap,\* Strategy.propertyMap
    now,        \* Date.getTime(), in milliseconds
    client,     \* the browser: where it is and the URL it asks for
    call,       \* the last authenticate call: its request, and for the last run
                \* of its code the validation result and the host calls (out);
                \* the host calls of its earlier run (prev); whether validate
                \* can call back once more (open)
    failLog,    \* the validation failures answered to the browser so far (the
                \* first run of the callback of each call): time, token, whether
                \* a retry redirect was issued, and whether its URL has the
                \* marker and no ticket
    hops,       \* the number of requests the browser has made
    results,    \* what validation may give in this run (the server's answers)
    xfer,       \* one Cerbere.validate call: its transport and its callback
    fnCall,     \* one call of a function of the client: its input and result
    conc        \* one strategy instance and the authenticate calls under way on it

vars == <<ctorArgs, ctorOut, impl, propertyMap, now, client, call,
          failLog, hops, results, xfer, fnCall, conc>>

(***************************************************************************)
(* JavaScript values                                                       *)
(***************************************************************************)
undefined == "<undefined>"
null == "<null>"

\* A URL string, by its parts; the empty string has every part empty.
Str(scheme, slashes, host, path) ==
    [k |-> "string", scheme |-> scheme, slashes |-> slashes, host |-> host, path |-> path]
Undef == [k |-> "undefined", scheme |-> "", slashes |-> FALSE, host |-> "", path |-> ""]
EmptyStr == Str("", FALSE, "", "")

\* !v for a string or undefined
Falsy(v) == v.k = "undefined" \/ v = EmptyStr

Thrown(type, message) == [k |-> "thrown", type |-> type, message |-> message]

(***************************************************************************)
(* Cerbere client constructor                                              *)
(***************************************************************************)
\* String.prototype.toLowerCase on the schemes used here
ToLowerCase(s) ==
    CASE s = "HTTPS" -> "https"
      [] s = "HTTP" -> "http"
      [] OTHER -> s

\* the protocols of url.js after which a host is read only behind "//"; the
\* table is in lower case and is looked up with the scheme as written
slashedProtocol == {"http", "https"}

\* url.parse(u): protocol is lower-cased and ends in ":". After a protocol a
\* host is read behind "//", or without "//" when the scheme as written is not
\* in slashedProtocol; what is not read as a host stays in the pathname.
url_parse(u) ==
    LET proto == u.scheme # ""
        readHost == proto /\ (u.slashes \/ u.scheme \notin slashedProtocol)
    IN  [protocol |-> IF proto THEN ToLowerCase(u.scheme) \o ":" ELSE null,
         hostname |-> IF readHost THEN u.host ELSE "",
         pathname |-> IF readHost \/ (proto /\ u.slashes) THEN u.path
                      ELSE IF u.slashes THEN "//" \o u.host \o u.path
                      ELSE u.host \o u.path]

Cerbere_NoHostCheck(options) ==
    IF Falsy(options.url)
    THEN Thrown("Error", "Required Cerbere option url missing.")
    ELSE LET cerbere_url == url_parse(options.url) IN
         IF cerbere_url.protocol # "https:"
         THEN Thrown("Error", "Cerbere url supports only https protocol.")
         ELSE [k |-> "Cerbere", cerbere_url |-> cerbere_url,
               base_path |-> cerbere_url.pathname]

Cerbere(options) ==
    IF Falsy(options.url)
    THEN Thrown("Error", "Required Cerbere option url missing.")
    ELSE LET cerbere_url == url_parse(options.url) IN
         IF cerbere_url.protocol # "https:"
         THEN Thrown("Error", "Cerbere url supports only https protocol.")
         ELSE IF cerbere_url.hostname = ""
         THEN Thrown("Error", "Option url must be a valid url")
         ELSE [k |-> "Cerbere", cerbere_url |-> cerbere_url,
               base_path |-> cerbere_url.pathname]

(***************************************************************************)
(* Strategy constructor                                                    *)
(***************************************************************************)
\* options is "function" (only a verify callback was passed), "undefined" or
\* "object"; casURL and serviceURL are the fields of an options object.
NoOptions == [casURL |-> Undef, serviceURL |-> Undef]

Strategy_SwappedChecks(optionsKind, opts, verify) ==
    LET v == IF optionsKind = "function" THEN TRUE ELSE verify
        o == IF optionsKind = "function" THEN NoOptions ELSE opts
    IN  IF optionsKind = "undefined" /\ v
        THEN Thrown("TypeError", "Cannot read property of undefined")
        ELSE IF Falsy(o.casURL)
        THEN Thrown("TypeError", "CerbereStrategy requires a casURL option")
        ELSE IF ~v
        THEN Thrown("TypeError", "CerbereStrategy requires a verify callback")
        ELSE IF Falsy(o.serviceURL)
        THEN Thrown("TypeError", "CerbereStrategy requires a serviceURL option")
        ELSE LET cerbere == Cerbere([url |-> o.casURL]) IN
             IF cerbere.k = "thrown" THEN cerbere
             ELSE [k |-> "Strategy", name |-> "cerbere", url |-> o.casURL,
                   service |-> o.serviceURL, cerbere |-> cerbere]

Strategy(optionsKind, opts, verify) ==
    LET v == IF optionsKind = "function" THEN TRUE ELSE verify
        o == IF optionsKind = "function" THEN NoOptions ELSE opts
    IN  IF ~v
        THEN Thrown("TypeError", "CerbereStrategy requires a verify callback")
        ELSE IF optionsKind = "undefined"
        THEN Thrown("TypeError", "Cannot read property of undefined")
        ELSE IF Falsy(o.casURL)
        THEN Thrown("TypeError", "CerbereStrategy requires a casURL option")
        ELSE IF Falsy(o.serviceURL)
        THEN Thrown("TypeError", "CerbereStrategy requires a serviceURL option")
        ELSE LET cerbere == Cerbere([url |-> o.casURL]) IN
             IF cerbere.k = "thrown" THEN cerbere
             ELSE [k |-> "Strategy", name |-> "cerbere", url |-> o.casURL,
                   service |-> o.serviceURL, cerbere |-> cerbere]

(***************************************************************************)
(* Request URLs                                                            *)
(*                                                                         *)
(* A URL string is a sequence of pieces. Each piece stands for a run of    *)
(* characters that the two regular expressions of authenticate and the     *)
(* query-string parser treat as a unit:                                    *)
(*   a path ("/p"), "?", "&", a parameter name with its "=" ("ticket=",    *)
(*   "_cas_retry=", "a=", and "tic%6Bet=", which decodes to ticket),       *)
(*   "d": a maximal run of digits, n its value,                            *)
(*   "w": a run of [\w.-] characters that are not all digits ("ST-ab"),    *)
(*   "x": a character outside [\w.-] that is no separator ("!").           *)
(***************************************************************************)
Paths == {"/p", "/app/p"}
Tok(c) == [c |-> c, n |-> 0]
D(n) == [c |-> "d", n |-> n]
W(n) == [c |-> "w", n |-> n]
X == Tok("x")
Q == Tok("?")
Amp == Tok("&")
TicketEq == Tok("ticket=")
EncTicketEq == Tok("tic%6Bet=")
RetryEq == Tok("_cas_retry=")
OtherEq == Tok("a=")

\* the parameter name a piece decodes to (querystring.parse unescapes names)
ParamName(t) ==
    CASE t.c = "ticket=" -> "ticket"
      [] t.c = "tic%6Bet=" -> "ticket"
      [] t.c = "_cas_retry=" -> "_cas_retry"
      [] t.c = "a=" -> "a"
      [] OTHER -> ""

IsNameTok(t) == ParamName(t) # ""

\* the last index j >= i - 1 with s[i..j] all of the classes cs (greedy run)
RECURSIVE RunEnd(_, _, _)
RunEnd(s, i, cs) ==
    IF i <= Len(s) /\ s[i].c \in cs THEN RunEnd(s, i + 1, cs) ELSE i - 1

\* /_cas_retry=\d+&?/ matches at i
RetryMatch(s, i) ==
    /\ s[i].c = "_cas_retry="
    /\ i + 1 <= Len(s)
    /\ s[i + 1].c = "d"

\* the first index >= i where the expression matches, or 0
RECURSIVE FirstRetryMatch(_, _)
FirstRetryMatch(s, i) ==
    IF i > Len(s) THEN 0
    ELSE IF RetryMatch(s, i) THEN i
    ELSE FirstRetryMatch(s, i + 1)

\* .replace(/_cas_retry=\d+&?/, '')
StripRetry(s) ==
    LET i == FirstRetryMatch(s, 1) IN
    IF i = 0 THEN s
    ELSE LET e == RunEnd(s, i + 1, {"d"})
             f == IF e + 1 <= Len(s) /\ s[e + 1].c = "&" THEN e + 1 ELSE e
         IN  SubSeq(s, 1, i - 1) \o SubSeq(s, f + 1, Len(s))

\* /([?&])ticket=[\w.-]+/ matches at i
TicketMatch(s, i) ==
    /\ s[i].c \in {"?", "&"}
    /\ i + 2 <= Len(s)
    /\ s[i + 1].c = "ticket="
    /\ s[i + 2].c \in {"d", "w"}

\* the first index >= i where the expression matches, or 0
RECURSIVE FirstTicketMatch(_, _)
FirstTicketMatch(s, i) ==
    IF i > Len(s) THEN 0
    ELSE IF TicketMatch(s, i) THEN i
    ELSE FirstTicketMatch(s, i + 1)

\* .replace(/([?&])ticket=[\w.-]+/, '$1_cas_retry=' + token)
ReplaceTicket(s, token) ==
    LET i == FirstTicketMatch(s, 1) IN
    IF i = 0 THEN s
    ELSE LET e == RunEnd(s, i + 2, {"d", "w"}) IN
         SubSeq(s, 1, i) \o <<RetryEq, D(token)>> \o SubSeq(s, e + 1, Len(s))

\* the retry URL of authenticate
RetryUrl(originalUrl, token) == ReplaceTicket(StripRetry(originalUrl), token)

\* the index of the first "?" at or after i, or 0
RECURSIVE FirstQ(_, _)
FirstQ(s, i) ==
    IF i > Len(s) THEN 0
    ELSE IF s[i].c = "?" THEN i
    ELSE FirstQ(s, i + 1)

\* url.parse(u).pathname: what precedes the first "?"
Pathname(s) ==
    LET q == FirstQ(s, 1) IN
    IF q = 0 THEN s ELSE SubSeq(s, 1, q - 1)

\* the query string split on "&": a sequence of [name, value]
RECURSIVE Segments(_, _)
Segments(s, i) ==
    IF i > Len(s) THEN <<>>
    ELSE LET e == RunEnd(s, i, {"d", "w", "x", "?", "ticket=", "tic%6Bet=",
                                "_cas_retry=", "a=", "/p", "/app/p"})
             seg == SubSeq(s, i, e)
             pair == IF seg # <<>> /\ IsNameTok(seg[1])
                     THEN <<[name |-> ParamName(seg[1]), value |-> Tail(seg)]>>
                     ELSE IF seg # <<>>
                     THEN <<[name |-> "(other)", value |-> <<>>]>>
                     ELSE <<>>
         IN  pair \o Segments(s, e + 2)

\* url.parse(u, true).query and req.query
ParseQuery(s) ==
    LET q == FirstQ(s, 1) IN
    IF q = 0 THEN <<>> ELSE Segments(s, q + 1)

\* query[name]: no entry is undefined, one a string, several an array
QueryAll(s, name) ==
    LET HasName(p) == p.name = name IN SelectSeq(ParseQuery(s), HasName)

\* !!query["ticket"]
HasTicket(s) ==
    LET vs == QueryAll(s, "ticket") IN
    Len(vs) >= 2 \/ (Len(vs) = 1 /\ vs[1].value # <<>>)

\* req.query['_cas_retry'] == token (loose equality of a string and a number)
RetryEquals(s, token) ==
    LET vs == QueryAll(s, "_cas_retry") IN
    /\ Len(vs) = 1
    /\ \/ vs[1].value = <<>> /\ token = 0
       \/ vs[1].value = <<D(token)>>

(***************************************************************************)
(* The time token                                                          *)
(***************************************************************************)
Minute == 60000

\* Math.round(num / den) for num >= 0: the nearest integer, halves upwards
Math_round(num, den) == (2 * num + den) \div (2 * den)

Math_floor(num, den) == num \div den

TimeToken_Floor(t) == Math_floor(t, Minute)

\* var token = Math.round(date.getTime() / 60000)
TimeToken(t) == Math_round(t, Minute)

(***************************************************************************)
(* The profile built from the validated attributes                         *)
(***************************************************************************)
\* attributes[key], delete attributes[key], obj[key] = v
Get(bag, key) == IF key \in DOMAIN bag THEN bag[key] ELSE undefined
Delete(bag, key) == [x \in (DOMAIN bag) \ {key} |-> bag[x]]
Put(f, key, v) == [x \in (DOMAIN f) \cup {key} |-> IF x = key THEN v ELSE f[x]]

\* string concatenation turns null and undefined into their names
JsString(v) ==
    IF v = undefined THEN "undefined" ELSE IF v = null THEN "null" ELSE v

\* a || b on strings
Or(a, b) == IF a = undefined \/ a = null \/ a = "" THEN b ELSE a

\* for (nameKey in propertyMap.name) {...}: entries in insertion order
RECURSIVE MapName(_, _, _)
MapName(entries, name, bag) ==
    IF entries = <<>> THEN [name |-> name, bag |-> bag]
    ELSE LET e == Head(entries) IN
         MapName(Tail(entries), Put(name, e.field, Get(bag, e.key)),
                 Delete(bag, e.field))

\* the e-mail loop with an entry only for an attribute that is present
RECURSIVE MapEmails_SkipAbsent(_, _, _)
MapEmails_SkipAbsent(entries, list, bag) ==
    IF entries = <<>> THEN [list |-> list, bag |-> bag]
    ELSE LET e == Head(entries) IN
         MapEmails_SkipAbsent(Tail(entries),
                   IF e.key \in DOMAIN bag
                   THEN Append(list, [value |-> Get(bag, e.key), type |-> e.type])
                   ELSE list,
                   Delete(bag, e.key))

\* propertyMap.emails.forEach(...)
RECURSIVE MapEmails(_, _, _)
MapEmails(entries, list, bag) ==
    IF entries = <<>> THEN [list |-> list, bag |-> bag]
    ELSE LET e == Head(entries) IN
         MapEmails(Tail(entries),
                   Append(list, [value |-> Get(bag, e.key), type |-> e.type]),
                   Delete(bag, e.key))

\* propertyMap.telephones.forEach(...)
RECURSIVE MapTelephones(_, _, _)
MapTelephones(entries, list, bag) ==
    IF entries = <<>> THEN [list |-> list, bag |-> bag]
    ELSE LET e == Head(entries) IN
         MapTelephones(Tail(entries),
                       Append(list, [value |-> Get(bag, e.key), type |-> e.type]),
                       Delete(bag, e.type))

\* propertyMap.adresses.forEach(...)
MapAdresses(entries, bag) ==
    [i \in 1..Len(entries) |->
        [street |-> Get(bag, entries[i].street), town |-> Get(bag, entries[i].town),
         streetcode |-> Get(bag, entries[i].streetcode),
         country |-> Get(bag, entries[i].country), type |-> entries[i].type]]

\* propertyMap.organizations.forEach(...)
MapOrganizations(entries, bag) ==
    [i \in 1..Len(entries) |->
        [code |-> Get(bag, entries[i].code), name |-> Get(bag, entries[i].name),
         type |-> entries[i].type]]

\* for (property in propertyMap) if (!profile.hasOwnProperty(property)) ...
MapExtras(entries, bag) ==
    [f \in {entries[i].field : i \in 1..Len(entries)} |->
        LET i == CHOOSE j \in 1..Len(entries) :
                    /\ entries[j].field = f
                    /\ \A l \in (j + 1)..Len(entries) : entries[l].field # f
        IN  Get(bag, entries[i].key)]

InitialName ==
    [f \in {"civilite", "familyName", "givenName", "middleName"} |-> null]

\* the id the profile literal starts with
InitialId_Callback(attributes, username) == Or(Get(attributes, "id"), username)
InitialId_Async(attributes, username) == Get(attributes, "id")

\* the mapping loops over a profile that starts with id id0. pm.has names the
\* sections propertyMap holds; an id or extra entry is a string, never an array.
BuildProfile(pm, attributes, id0) ==
    IF pm.k = "undefined" \/ {"emails", "telephones", "adresses", "organizations"} \ pm.has # {}
    THEN Thrown("TypeError", "Cannot read property of undefined")
    ELSE LET id == IF "id" \in pm.has THEN Get(attributes, pm.id) ELSE id0
             n == MapName(IF "name" \in pm.has THEN pm.name ELSE <<>>,
                          InitialName, attributes)
             displayName == JsString(n.name["civilite"]) \o " "
                            \o JsString(n.name["givenName"]) \o " "
                            \o JsString(n.name["familyName"])
             e == MapEmails(pm.emails, <<>>, n.bag)
             t == MapTelephones(pm.telephones, <<>>, e.bag)
         IN  [k |-> "profile", provider |-> "Cerbere", id |-> id,
              name |-> Put(n.name, "displayName", displayName),
              emails |-> e.list, telephones |-> t.list,
              adresses |-> MapAdresses(pm.adresses, t.bag),
              organizations |-> MapOrganizations(pm.organizations, t.bag),
              extras |-> MapExtras(pm.extras, t.bag)]

(***************************************************************************)
(* Strategy.authenticate                                                   *)
(***************************************************************************)
\* reqURL.pathname as a string: the request URLs here have one path piece
PathString(url) == IF Pathname(url) = <<>> THEN "" ELSE Pathname(url)[1].c

\* the parameters of the request other than ticket, which url.format would
\* write if it were given the query
IsNotTicket(p) == p.name # "ticket"
QueryWithoutTicket(url) == SelectSeq(ParseQuery(url), IsNotTicket)

\* a service URL that keeps the query of the request
Service_WithQuery(req) ==
    [protocol |-> Or(req.headers.xfproto, Or(req.headers.xpproto, Or(req.protocol, "http"))),
     host |-> Or(req.headers.xfhost, Or(req.headers.host, null)),
     pathname |-> Or(req.headers.xpuri, PathString(req.url)),
     query |-> QueryWithoutTicket(req.url)]

\* url.format({protocol, host, pathname}): the query is left out
Service(req) ==
    [protocol |-> Or(req.headers.xfproto, Or(req.headers.xpproto, Or(req.protocol, "http"))),
     host |-> Or(req.headers.xfhost, Or(req.headers.host, null)),
     pathname |-> Or(req.headers.xpuri, PathString(req.url)),
     query |-> <<>>]

NoService == [protocol |-> "", host |-> "", pathname |-> "", query |-> <<>>]

\* self.url of the strategy the requests are handled by
CasURL == Str("https", TRUE, "cas.example", "/cas/public")

\* encodeURIComponent(v): v as the value of one query parameter
encodeURIComponent(v) == [component |-> v]

\* self.url + '/login?service=' + encodeURIComponent(service)
LoginUrl(base, service) ==
    [base |-> base, path |-> "/login", service |-> encodeURIComponent(service)]

\* cerbere.login(service) of the client of the async version
login(service) == LoginUrl(CasURL, service)

\* self.redirect(url, 307), to the CAS login page or back to this service
RedirectLogin(service) ==
    [op |-> "redirect", status |-> 307, to |-> "cas", url |-> <<>>, service |-> service,
     location |-> LoginUrl(CasURL, service)]
RedirectLoginAsync(service) ==
    [op |-> "redirect", status |-> 307, to |-> "cas", url |-> <<>>, service |-> service,
     location |-> login(service)]
RedirectSelf(url) ==
    [op |-> "redirect", status |-> 307, to |-> "self", url |-> url, service |-> NoService,
     location |-> LoginUrl(Undef, NoService)]
Fail(err) == [op |-> "fail", err |-> err]
Throw(type) == [op |-> "throw", type |-> type]
Verify(username, profile) == [op |-> "verify", username |-> username, profile |-> profile]

\* a completion callback that looks at the user before the error
verified_UserFirst(done) ==
    IF done.user THEN [op |-> "success", user |-> "user"]
    ELSE IF done.err THEN [op |-> "error", err |-> "verify error"]
    ELSE Fail("info")

\* function verified(err, user, info)
verified(done) ==
    IF done.err THEN [op |-> "error", err |-> "verify error"]
    ELSE IF ~done.user THEN Fail("info")
    ELSE [op |-> "success", user |-> "user"]

\* the branch taken when validation failed, with a transport error exempted
OnValidateError_NoTransportRetry(url, err, t) ==
    LET token == TimeToken(t) IN
    IF err # "transport" /\ ~RetryEquals(url, token)
    THEN <<RedirectSelf(RetryUrl(url, token))>>
    ELSE <<Fail(err)>>

\* if (err) { ... }: the branch taken when validation failed
OnValidateError(url, err, t) ==
    LET token == TimeToken(t) IN
    IF ~RetryEquals(url, token)
    THEN <<RedirectSelf(RetryUrl(url, token))>>
    ELSE <<Fail(err)>>

\* authenticate of lib/strategy.js: the calls it makes, in order, up to the
\* call of verify. Without a ticket they are made before authenticate
\* returns; with a ticket authenticate returns after sending the validation
\* request, and they are made in the callback of validate. res is what
\* validate hands to that callback, t the time at which the callback runs.
Authenticate(pm, req, res, t) ==
    IF ~HasTicket(req.url) THEN <<RedirectLogin(Service(req))>>
    ELSE IF res.err # "none" THEN OnValidateError(req.url, res.err, t)
    ELSE LET profile == BuildProfile(pm, res.attributes,
                            InitialId_Callback(res.attributes, res.username))
         IN  IF profile.k = "thrown" THEN <<Throw(profile.type)>>
             ELSE <<Verify(res.username, profile)>>

\* the async authenticate: what follows await runs when the promise of
\* validate settles. The catch block falls through to the profile code,
\* where resultat is still {} and attributes.id throws.
AuthenticateAsync(pm, req, res, t) ==
    IF ~HasTicket(req.url) THEN <<RedirectLoginAsync(Service(req))>>
    ELSE IF res.err # "none"
    THEN OnValidateError(req.url, res.err, t) \o <<Throw("TypeError")>>
    ELSE LET profile == BuildProfile(pm, res.attributes,
                            InitialId_Async(res.attributes, res.username))
         IN  IF profile.k = "thrown" THEN <<Throw(profile.type)>>
             ELSE <<Verify(profile.id, profile)>>

\* an authenticate that removes from propertyMap the e-mail entries it used
SelfAfter_ConsumesMap(self, res) ==
    IF res.err = "none" /\ self.propertyMap.k = "object"
    THEN [self EXCEPT !.propertyMap.emails = <<>>]
    ELSE self

\* the instance after an authenticate call: url, service and propertyMap
\* are read, and no statement assigns to self or to a part of propertyMap
\* (the delete statements act on the attributes of the call's own result)
SelfAfter(self, res) == self

(***************************************************************************)
(* Cerbere.validate: the response handler                                  *)
(*                                                                         *)
(* fxp.parse gives a tree of objects, arrays and strings. An element with  *)
(* attributes is an object ("@_name" for an attribute, "#text" for its     *)
(* text), an element without is its text, a repeated element an array.     *)
(***************************************************************************)
JUndef == [t |-> "undefined"]
JThrow == [t |-> "TypeError"]
JStr(s) == [t |-> "string", s |-> s]
JObj(f) == [t |-> "object", f |-> f]
JArr(a) == [t |-> "array", a |-> a]

\* v[key]: reading a property of undefined throws, and an exception
\* thrown earlier in the expression stays thrown
Prop(v, key) ==
    IF v.t \in {"undefined", "TypeError"} THEN JThrow
    ELSE IF v.t = "object" /\ key \in DOMAIN v.f THEN v.f[key]
    ELSE JUndef

\* v[0]: the first element of an array, the first character of a text
First(v) ==
    IF v.t \in {"undefined", "TypeError"} THEN JThrow
    ELSE IF v.t = "array" /\ Len(v.a) >= 1 THEN v.a[1]
    ELSE IF v.t = "string" /\ v.s # "" THEN JStr(SubSeq(v.s, 1, 1))
    ELSE JUndef

\* !v
JFalsy(v) == v.t = "undefined" \/ v = JStr("")

\* the loop of parseAttributes over elemAttributes[i..]: the bag, or "thrown"
RECURSIVE ParseLoop(_, _, _)
ParseLoop(a, i, attributes) ==
    IF i > Len(a) THEN [k |-> "ok", attributes |-> attributes]
    ELSE LET elemAttribute == a[i]
             name == Prop(elemAttribute, "@_AttributeName")
             text == Prop(Prop(elemAttribute, "AttributeValue"), "#text")
         IN  IF elemAttribute.t # "object" \/ name.t = "undefined"
             THEN ParseLoop(a, i + 1, attributes)
             ELSE IF text.t = "TypeError" THEN [k |-> "thrown", attributes |-> <<>>]
             ELSE ParseLoop(a, i + 1,
                    Put(attributes, name.s,
                        IF text.t = "string" THEN text.s ELSE undefined))

\* parseAttributes of the SOAP/SAML client: the last value of a name stays.
\* elemAttributes.length throws for undefined, and is undefined for an
\* object, for which the loop does not run; the characters of a string have
\* no @_AttributeName.
parseAttributes(elemAttributes) ==
    IF elemAttributes.t \in {"undefined", "TypeError"}
    THEN [k |-> "thrown", attributes |-> <<>>]
    ELSE IF elemAttributes.t = "array" THEN ParseLoop(elemAttributes.a, 1, <<>>)
    ELSE [k |-> "ok", attributes |-> <<>>]

\* callback(err, status, username, extended)
Callback(err, status, username, attributes) ==
    [err |-> err, status |-> status, username |-> username, attributes |-> attributes]

Handled(cb) == [callbacks |-> <<cb>>, uncaught |-> <<>>]
Uncaught(type) == [callbacks |-> <<>>, uncaught |-> <<type>>]

\* res.on("end"): what the handler does with the accumulated response.
\* body.wellFormed says whether fxp's validation accepts the text.
OnEndHandler(body) ==
    IF ~body.wellFormed THEN Handled(Callback("parse", FALSE, undefined, <<>>))
    ELSE
    LET elemResponse == Prop(Prop(Prop(body.json, "Envelope"), "Body"), "Response")
        elemStatusCode == Prop(Prop(elemResponse, "Status"), "StatusCode")
        value == Prop(elemStatusCode, "@_Value")
        elemAttributeStatement ==
            Prop(First(Prop(elemResponse, "Assertion")), "AttributeStatement")
        userId == Prop(Prop(Prop(elemAttributeStatement, "Subject"),
                            "NameIdentifier"), "#text")
        parsed == parseAttributes(Prop(elemAttributeStatement, "Attribute"))
    IN  IF value.t = "TypeError" THEN Uncaught("TypeError")
        ELSE IF value = JStr("ns2:Success")
        THEN IF userId.t = "TypeError" THEN Uncaught("TypeError")
             ELSE IF JFalsy(userId)
             THEN Handled(Callback("No userId?", FALSE, undefined, <<>>))
             ELSE IF parsed.k = "thrown" THEN Uncaught("TypeError")
             ELSE Handled(Callback("none", TRUE, userId.s, parsed.attributes))
        ELSE Handled(Callback("Validation failed", FALSE, undefined, <<>>))

(***************************************************************************)
(* Cerbere.validate: the request body. A text is a sequence of pieces: a   *)
(* character of the ticket, or a run of the template taken as a whole.     *)
(***************************************************************************)
\* the template up to the first %s, between the %s, and after the last
EnvelopeOpen == <<"<SOAP-ENV:Envelope><SOAP-ENV:Header/><SOAP-ENV:Body><samlp:Request RequestID=">>
EnvelopeInstant == <<" IssueInstant=">>
ArtifactOpen == <<"><samlp:AssertionArtifact>">>
ArtifactClose == <<"</samlp:AssertionArtifact>", "</samlp:Request></SOAP-ENV:Body></SOAP-ENV:Envelope>">>

\* util.format(template, uuid.v4(), new Date().toISOString(), ticket): each
\* %s is replaced by its argument as it is
soapEnvelope(id, instant, ticket) ==
    EnvelopeOpen \o <<id>> \o EnvelopeInstant \o <<instant>> \o ArtifactOpen
    \o ticket \o ArtifactClose

(***************************************************************************)
(* lib/cerbere.js: parseAttributes over the children of cas:attributes     *)
(***************************************************************************)
\* node.name.toLowerCase().replace(/cas:/, "") on the tag names used here
AttrName(name) ==
    CASE name = "cas:mail" -> "mail"
      [] name = "cas:uid" -> "uid"
      [] name = "cas:constructor" -> "constructor"
      [] OTHER -> name

\* the property names an empty object literal inherits
InheritedNames == {"constructor", "__proto__"}

\* for (i = 0; i < elemAttribute.children().length; i++) {...}: a name that
\* is not yet a key of attributes but is inherited from Object.prototype
\* reads as a value without push, and the call throws
RECURSIVE ParseChildren(_, _, _)
ParseChildren(children, i, attributes) ==
    IF i > Len(children) THEN [k |-> "ok", attributes |-> attributes]
    ELSE LET attrName == AttrName(children[i].name)
             attrValue == children[i].text
         IN  IF attrName = "#text" THEN ParseChildren(children, i + 1, attributes)
             ELSE IF attrName \notin DOMAIN attributes
             THEN IF attrName \in InheritedNames
                  THEN [k |-> "thrown", attributes |-> <<>>]
                  ELSE ParseChildren(children, i + 1,
                                     Put(attributes, attrName, <<attrValue>>))
             ELSE ParseChildren(children, i + 1,
                                Put(attributes, attrName,
                                    Append(attributes[attrName], attrValue)))

\* parseAttributes of lib/cerbere.js
parseAttributes_cheerio(children) == ParseChildren(children, 1, <<>>)

(***************************************************************************)
(* Bounds and inputs                                                       *)
(***************************************************************************)
MaxHops == 4          \* requests one browser makes
MaxHalfMinutes == 2   \* the clock runs over 0 .. (MaxHalfMinutes + 1) half minutes
MaxChunks == 3        \* data events of one response
MaxChildren == 3      \* elements handed to a parser
MaxCalls == 2         \* authenticate calls under way on one instance
MaxTicketLen == 2     \* characters of a ticket
HalfMinute == Minute \div 2
MaxResponseLength == 1000000

Times == {h * HalfMinute + d : h \in 0..MaxHalfMinutes, d \in {0, HalfMinute - 1}}

\* ---- constructor arguments
UrlValues ==
    {Undef, EmptyStr} \cup
    {Str(sc, sl, h, "/cas/public") :
        sc \in {"https", "HTTPS", "http", ""}, sl \in BOOLEAN, h \in {"", "cas.example"}}

ServiceValues == {Undef, EmptyStr, Str("https", TRUE, "app.example", "/")}

CtorArgs(fn, optionsKind, casURL, serviceURL, verify) ==
    [fn |-> fn, optionsKind |-> optionsKind, casURL |-> casURL,
     serviceURL |-> serviceURL, verify |-> verify]

StrategyArgs ==
    {CtorArgs("Strategy", "object", c, sv, v) :
        c \in UrlValues, sv \in ServiceValues, v \in BOOLEAN}
    \cup {CtorArgs("Strategy", kind, Undef, Undef, v) :
        kind \in {"function", "undefined"}, v \in BOOLEAN}

CerbereArgs == {CtorArgs("Cerbere", "object", c, Undef, FALSE) : c \in UrlValues}

\* ---- property maps
pmFull ==
    [k |-> "object",
     has |-> {"id", "name", "emails", "telephones", "adresses", "organizations"},
     id |-> "UTILISATEUR.ID",
     name |-> <<[field |-> "civilite", key |-> "UTILISATEUR.CIVILITE"],
                [field |-> "givenName", key |-> "UTILISATEUR.PRENOM"],
                [field |-> "familyName", key |-> "UTILISATEUR.NOM"]>>,
     emails |-> <<[key |-> "UTILISATEUR.MEL", type |-> "principal"],
                  [key |-> "UTILISATEUR.MELPR", type |-> "professionnel"]>>,
     telephones |-> <<[key |-> "UTILISATEUR.TEL_FIXE", type |-> "fixe"]>>,
     adresses |-> <<[street |-> "UTILISATEUR.ADR_RUE", town |-> "UTILISATEUR.ADR_VILLE",
                     streetcode |-> "UTILISATEUR.ADR_CODEPOSTAL",
                     country |-> "UTILISATEUR.ADR_PAYS_NOM", type |-> "principale"],
                    [street |-> "ENTREPRISE.ADR_RUE", town |-> "ENTREPRISE.ADR_VILLE",
                     streetcode |-> "ENTREPRISE.ADR_CODEPOSTAL",
                     country |-> "ENTREPRISE.ADR_PAYS_NOM", type |-> "entreprise"]>>,
     organizations |-> <<[code |-> "ENTREPRISE.SIREN",
                          name |-> "ENTREPRISE.RAISON_SOCIALE", type |-> "principale"]>>,
     extras |-> <<[field |-> "unite", key |-> "UTILISATEUR.UNITE"]>>]

pmNoId == [pmFull EXCEPT !.has = @ \ {"id"}]
pmUndefined == [pmFull EXCEPT !.k = "undefined", !.has = {}]

\* a map that names one attribute in two places: the given name, the
\* telephone and the first e-mail address are also top-level fields
pmShared ==
    [pmFull EXCEPT !.extras = <<[field |-> "prenom", key |-> "UTILISATEUR.PRENOM"],
                                [field |-> "tel", key |-> "UTILISATEUR.TEL_FIXE"],
                                [field |-> "mail", key |-> "UTILISATEUR.MEL"]>>]

\* a map whose list sections are empty arrays
pmNoLists ==
    [pmFull EXCEPT !.emails = <<>>, !.telephones = <<>>, !.adresses = <<>>,
                   !.organizations = <<>>]

PropertyMaps == {pmFull, pmNoId, pmUndefined, pmShared, pmNoLists}

\* ---- validation results
AttrKeys == {"UTILISATEUR.ID", "id", "UTILISATEUR.MEL", "UTILISATEUR.PRENOM",
             "UTILISATEUR.TEL_FIXE"}
AttrValue(key) ==
    CASE key = "UTILISATEUR.ID" -> "42"
      [] key = "id" -> "alice-id"
      [] key = "UTILISATEUR.PRENOM" -> "Alice"
      [] key = "UTILISATEUR.TEL_FIXE" -> "0102"
      [] OTHER -> "a@x.com"
Bags == {[key \in S |-> AttrValue(key)] : S \in SUBSET AttrKeys}

\* the errors validate hands to its callback
ErrKinds == {"Validation failed", "No userId?", "parse", "transport"}
Failures == {[err |-> e, username |-> undefined, attributes |-> <<>>] : e \in ErrKinds}
Successes == {[err |-> "none", username |-> "alice", attributes |-> b] : b \in Bags}
OneSuccess == [err |-> "none", username |-> "alice",
               attributes |-> [key \in AttrKeys |-> AttrValue(key)]]
NoResult == [err |-> "unused", username |-> undefined, attributes |-> <<>>]

DoneArgs == [err : BOOLEAN, user : BOOLEAN]
NoDone == [err |-> FALSE, user |-> FALSE]

\* ---- requests
P == Tok("/p")
RetryValues == {1, 2}
InitialUrls ==
    { <<P>>,
      <<P, Q, TicketEq>>,
      <<P, Q, TicketEq, W(0)>>,
      <<P, Q, TicketEq, D(3), W(0)>>,
      <<P, Q, TicketEq, W(0), X, D(7)>>,
      <<P, Q, OtherEq, D(5), Amp, TicketEq, W(0)>>,
      <<P, Q, EncTicketEq, W(0)>>,
      <<P, Q, TicketEq, W(0), Amp, TicketEq, W(1)>> }
    \cup { <<P, Q, RetryEq, D(n), Amp, TicketEq, W(0)>> : n \in RetryValues }
    \cup { <<P, Q, TicketEq, W(0), Amp, RetryEq, D(n)>> : n \in RetryValues }
    \cup { <<P, Q, RetryEq, D(n)>> : n \in RetryValues }

Headers(xfproto, xfhost, host, xpuri) ==
    [xfproto |-> xfproto, xpproto |-> undefined, xfhost |-> xfhost, host |-> host,
     xpuri |-> xpuri]
HeaderSets == {Headers(undefined, undefined, "app.example", undefined),
               Headers("https", "www.example", "10.0.0.1", undefined)}

Requests ==
    {[url |-> u, protocol |-> "http", headers |-> h] : u \in InitialUrls, h \in HeaderSets}

\* ---- response bodies
StatusCode(v) == JObj(("@_Value" :> JStr(v)) @@ ("#text" :> JStr("text")))
Attr(name, v) ==
    JObj(("@_AttributeName" :> JStr(name)) @@
         ("AttributeValue" :> JObj("#text" :> JStr(v))))
Statement(user, attrs) ==
    JObj(("Subject" :> JObj("NameIdentifier" :> user)) @@ attrs)
Assertion(st) == JObj("AttributeStatement" :> st)
Response(status, rest) == JObj(("Status" :> JObj("StatusCode" :> StatusCode(status))) @@ rest)
Envelope(resp) == JObj("Envelope" :> JObj("Body" :> JObj("Response" :> resp)))
Alice == JObj("#text" :> JStr("alice"))
TwoAttrs == "Attribute" :> JArr(<<Attr("UTILISATEUR.MEL", "a@x.com"),
                                  Attr("UTILISATEUR.MEL", "b@x.com")>>)
Doc(wellFormed, json) == [wellFormed |-> wellFormed, json |-> json]

DocIds == {"malformed", "otherRoot", "noBody", "noStatus", "failure",
           "oneAssertion", "noUser", "noAttribute", "success"}
DocOf(id) ==
    CASE id = "malformed" -> Doc(FALSE, JUndef)
      [] id = "otherRoot" -> Doc(TRUE, JObj("serviceResponse" :> JStr("")))
      [] id = "noBody" -> Doc(TRUE, JObj("Envelope" :> JStr("")))
      [] id = "noStatus" -> Doc(TRUE, Envelope(JObj("Assertion" :> JStr(""))))
      [] id = "failure" -> Doc(TRUE, Envelope(Response("ns2:RequestDenied", <<>>)))
      [] id = "oneAssertion" ->
            Doc(TRUE, Envelope(Response("ns2:Success",
                "Assertion" :> Assertion(Statement(Alice, TwoAttrs)))))
      [] id = "noUser" ->
            Doc(TRUE, Envelope(Response("ns2:Success",
                "Assertion" :> JArr(<<Assertion(Statement(JStr(""), TwoAttrs)),
                                      Assertion(Statement(JStr(""), TwoAttrs))>>))))
      [] id = "noAttribute" ->
            Doc(TRUE, Envelope(Response("ns2:Success",
                "Assertion" :> JArr(<<Assertion(Statement(Alice, <<>>)),
                                      Assertion(Statement(Alice, <<>>))>>))))
      [] OTHER ->
            Doc(TRUE, Envelope(Response("ns2:Success",
                "Assertion" :> JArr(<<Assertion(Statement(Alice, TwoAttrs)),
                                      Assertion(Statement(Alice, TwoAttrs))>>))))

\* ---- parser inputs
TagNames == {"cas:mail", "mail", "cas:uid", "cas:constructor"}
Texts == {"", "a", "b"}
Children == {[name |-> n, text |-> t] : n \in TagNames, t \in Texts}
AttributeNames == {"UTILISATEUR.MEL", "UTILISATEUR.NOM"}

\* what fxp.parse gives for the AttributeValue elements of one Attribute: an
\* object with #text for an element with XML attributes, its text for an
\* element without, an array for a repeated element, nothing for none
AttributeValues ==
    {JObj("#text" :> JStr(v)) : v \in Texts \ {""}}
    \cup {JStr("a"), JArr(<<JStr("a"), JStr("b")>>), JUndef}

\* one Attribute element as parsed, with or without AttributeName
Entry(name, value) ==
    JObj((IF name = undefined THEN <<>> ELSE "@_AttributeName" :> JStr(name))
         @@ (IF value = JUndef THEN <<>> ELSE "AttributeValue" :> value))
Entries ==
    {Entry(n, v) : n \in AttributeNames, v \in AttributeValues}
    \cup {Entry(undefined, JObj("#text" :> JStr("a")))}

\* what fxp.parse hands over for the elements of one tag name under a
\* parent: nothing for none, the element for one, an array for several
Repeated(elems) ==
    IF Len(elems) = 0 THEN JUndef
    ELSE IF Len(elems) = 1 THEN elems[1]
    ELSE JArr(elems)

TicketChars == {"a", "<", ">", "&"}

\* the sequences over S of length at most n
RECURSIVE SeqsUpTo(_, _)
SeqsUpTo(S, n) ==
    IF n = 0 THEN {<<>>}
    ELSE LET shorter == SeqsUpTo(S, n - 1) IN
         shorter \cup {Append(q, x) : q \in shorter, x \in S}

Lengths == {1000, MaxResponseLength, MaxResponseLength + 1000, 2 * MaxResponseLength}
ChunkSizes == {1000, MaxResponseLength \div 2, MaxResponseLength}

(***************************************************************************)
(* State of the parts a specification leaves alone                         *)
(***************************************************************************)
NoCtorArgs == CtorArgs("none", "object", Undef, Undef, FALSE)
Pending == [k |-> "pending"]
NoClient == [at |-> "stopped",
             req |-> [url |-> <<>>, protocol |-> "http",
                      headers |-> Headers(undefined, undefined, undefined, undefined)],
             service |-> NoService]
NoCall == [req |-> NoClient.req, res |-> NoResult, done |-> NoDone, at |-> 0, token |-> 0,
           out |-> <<>>, prev |-> <<>>, open |-> FALSE]
NoXfer == [impl |-> "none", phase |-> "idle", doc |-> "malformed", length |-> 0,
           received |-> 0, chunks |-> 0, destroyed |-> FALSE, aborted |-> FALSE,
           parsed |-> <<>>, callbacks |-> <<>>, uncaught |-> <<>>]

CtorIdle == ctorArgs = NoCtorArgs /\ ctorOut = Pending
AuthIdle ==
    /\ impl = "callback" /\ propertyMap = pmUndefined /\ now = 0
    /\ client = NoClient /\ call = NoCall /\ failLog = <<>> /\ hops = 0
    /\ results = {}
ValidateIdle == xfer = NoXfer
NoFnCall == [fn |-> "none", input |-> <<>>, done |-> FALSE, result |-> Pending]
FnIdle == fnCall = NoFnCall
NoConc == [impl |-> "none", self |-> [url |-> Undef, service |-> Undef, propertyMap |-> pmUndefined],
           calls |-> <<>>]
ConcIdle == conc = NoConc

ctorVars == <<ctorArgs, ctorOut>>
authVars == <<impl, propertyMap, now, client, call, failLog, hops, results>>

(***************************************************************************)
(* SpecCtor: new Strategy(options, verify) and new Cerbere(options)        *)
(***************************************************************************)
InitCtor ==
    /\ ctorArgs \in StrategyArgs \cup CerbereArgs
    /\ ctorOut = Pending
    /\ AuthIdle /\ ValidateIdle /\ FnIdle /\ ConcIdle

NewStrategy ==
    /\ ctorArgs.fn = "Strategy" /\ ctorOut = Pending
    /\ ctorOut' = Strategy(ctorArgs.optionsKind,
                           [casURL |-> ctorArgs.casURL, serviceURL |-> ctorArgs.serviceURL],
                           ctorArgs.verify)
    /\ UNCHANGED <<conc, fnCall, ctorArgs, authVars, xfer>>

NewCerbere ==
    /\ ctorArgs.fn = "Cerbere" /\ ctorOut = Pending
    /\ ctorOut' = Cerbere([url |-> ctorArgs.casURL])
    /\ UNCHANGED <<conc, fnCall, ctorArgs, authVars, xfer>>

NextCtor == NewStrategy \/ NewCerbere

SpecCtor == InitCtor /\ [][NextCtor]_vars

(***************************************************************************)
(* SpecAuth: authenticate, and a browser that follows every redirect       *)
(***************************************************************************)
InitAuth ==
    /\ impl \in {"callback", "async"}
    /\ propertyMap = pmFull
    /\ results = Failures \cup {OneSuccess}
    /\ now \in Times
    /\ client \in {[at |-> "service", req |-> r, service |-> NoService] : r \in Requests}
    /\ call = NoCall
    /\ failLog = <<>>
    /\ hops = 0
    /\ CtorIdle /\ ValidateIdle /\ FnIdle /\ ConcIdle

\* the browser after the response: it follows a redirect, and stops otherwise
Follow(c, out) ==
    IF out[1].op # "redirect" THEN [c EXCEPT !.at = "stopped"]
    ELSE IF out[1].to = "cas" THEN [c EXCEPT !.at = "cas", !.service = out[1].service]
    ELSE [c EXCEPT !.at = "service", !.req.url = out[1].url]

\* the call record of a request whose authenticate call has begun
NewCall(req, t) ==
    [req |-> req, res |-> NoResult, done |-> NoDone, at |-> t, token |-> TimeToken(t),
     out |-> <<>>, prev |-> <<>>, open |-> FALSE]

\* authenticate up to its return: the login redirect for a request without
\* a ticket, and the validation request sent for one with a ticket
Begin(out) ==
    /\ call' = IF HasTicket(client.req.url) THEN NewCall(client.req, now)
               ELSE [NewCall(client.req, now) EXCEPT !.out = out]
    /\ client' = IF HasTicket(client.req.url) THEN [client EXCEPT !.at = "validating"]
                 ELSE Follow(client, out)
    /\ hops' = hops + 1
    /\ UNCHANGED <<conc, fnCall, impl, propertyMap, now, failLog, results, ctorVars, xfer>>

\* verify was the last call of a run of the callback
VerifyLast(out) == out # <<>> /\ out[Len(out)].op = "verify"

\* verify was called, in the last run of the callback or in an earlier one,
\* and the application has not called verified yet
VerifyPending(c) == VerifyLast(c.out) \/ VerifyLast(c.prev)

\* validate hands res over: out are the calls made in that run, again
\* whether validate can call back once more. The call record holds the last
\* run (res, at, token, out) and in prev the calls of the earlier run. The
\* browser gets the first response that is sent: that of the first run, or
\* that of the second when the first called verify and verified is still
\* to come; after verify the call waits for the application to call
\* verified.
Handle(res, again, out) ==
    LET answers == client.at \in {"validating", "verifying"} IN
    /\ call' = [call EXCEPT !.res = res, !.at = now, !.token = TimeToken(now),
                            !.prev = @ \o call.out, !.out = out, !.open = again]
    /\ failLog' = IF answers /\ res.err # "none"
                  THEN Append(failLog,
                         [at |-> now, token |-> TimeToken(now),
                          retried |-> out[1].op = "redirect",
                          marked |-> /\ out[1].op = "redirect"
                                     /\ ~HasTicket(out[1].url)
                                     /\ RetryEquals(out[1].url, TimeToken(now))])
                  ELSE failLog
    /\ client' = IF ~answers THEN client
                 ELSE IF out[Len(out)].op = "verify" THEN [client EXCEPT !.at = "verifying"]
                 ELSE Follow(client, out)
    /\ UNCHANGED <<conc, fnCall, impl, propertyMap, now, hops, results, ctorVars, xfer>>

authenticate ==
    /\ impl = "callback" /\ client.at = "service" /\ hops < MaxHops
    /\ Begin(Authenticate(propertyMap, client.req, NoResult, now))

\* function (err, status, username, extended): the callback handed to
\* validate. It keeps no record of having run, and the three handlers of
\* validate each call it. It runs twice when the request error handler
\* runs as well as a handler of the response: with the transport error
\* first, the response under way, and then with what the end handler or the
\* response error handler gives; or with what the end handler gives first
\* and then with the transport error of a socket that fails after the end.
validateCallback ==
    /\ impl = "callback"
    /\ \E res \in results :
          /\ \/ client.at = "validating"
             \/ call.open /\ "transport" \in {call.res.err, res.err}
          /\ Handle(res, client.at = "validating",
                    Authenticate(propertyMap, call.req, res, now))

authenticateAsync ==
    /\ impl = "async" /\ client.at = "service" /\ hops < MaxHops
    /\ Begin(AuthenticateAsync(propertyMap, client.req, NoResult, now))

\* the promise of validate settles, once, and the async function resumes
awaitValidate ==
    /\ impl = "async" /\ client.at = "validating"
    /\ \E res \in results :
          Handle(res, FALSE, AuthenticateAsync(propertyMap, call.req, res, now))

\* the application's verify calls verified(err, user, info), in the turn of
\* verify or in a later one
verifyDone ==
    /\ VerifyPending(call)
    /\ \E done \in DoneArgs :
          call' = IF VerifyLast(call.out)
                  THEN [call EXCEPT !.done = done, !.out = Append(@, verified(done))]
                  ELSE [call EXCEPT !.done = done, !.prev = Append(@, verified(done))]
    /\ client' = IF client.at = "verifying" THEN [client EXCEPT !.at = "stopped"] ELSE client
    /\ UNCHANGED <<conc, fnCall, impl, propertyMap, now, failLog, hops, results, ctorVars, xfer>>

\* the CAS server sends the browser back to the service URL with a new ticket
casReturn ==
    /\ client.at = "cas" /\ hops < MaxHops
    /\ client' = [at |-> "service",
                  req |-> [client.req EXCEPT
                              !.url = <<Tok(client.service.pathname), Q, TicketEq, W(1)>>],
                  service |-> NoService]
    /\ UNCHANGED <<conc, fnCall, impl, propertyMap, now, call, failLog, hops, results, ctorVars, xfer>>

\* time passes before a request arrives and while its ticket is validated
Tick ==
    /\ client.at \in {"service", "validating"} \/ call.open
    /\ \E t \in Times : t > now /\ now' = t
    /\ UNCHANGED <<conc, fnCall, impl, propertyMap, client, call, failLog, hops, results, ctorVars, xfer>>

NextAuth ==
    \/ authenticate \/ validateCallback \/ authenticateAsync \/ awaitValidate
    \/ verifyDone \/ casReturn \/ Tick

SpecAuth == InitAuth /\ [][NextAuth]_vars

(***************************************************************************)
(* SpecProfile: one request with a ticket that validates                   *)
(***************************************************************************)
InitProfile ==
    /\ impl \in {"callback", "async"}
    /\ propertyMap \in PropertyMaps
    /\ results = Successes
    /\ now = Minute
    /\ client \in {[at |-> "service",
                    req |-> [url |-> <<P, Q, TicketEq, W(0)>>, protocol |-> "http",
                             headers |-> h],
                    service |-> NoService] : h \in HeaderSets}
    /\ call = NoCall
    /\ failLog = <<>>
    /\ hops = 0
    /\ CtorIdle /\ ValidateIdle /\ FnIdle /\ ConcIdle

NextProfile ==
    \/ authenticate \/ validateCallback \/ authenticateAsync \/ awaitValidate
    \/ verifyDone

SpecProfile == InitProfile /\ [][NextProfile]_vars

(***************************************************************************)
(* SpecValidate: the transport events of one validate call                 *)
(***************************************************************************)
InitValidate ==
    /\ xfer \in {[NoXfer EXCEPT !.impl = i, !.doc = d, !.length = l] :
                    i \in {"fxp", "cheerio"}, d \in DocIds, l \in Lengths}
    /\ CtorIdle /\ AuthIdle /\ FnIdle /\ ConcIdle

\* the text accumulated in response: the whole document, or a document cut
\* short, which is not well-formed
ReceivedBody ==
    IF xfer.received = xfer.length THEN DocOf(xfer.doc) ELSE Doc(FALSE, JUndef)

\* validate of the SOAP/SAML client: the request is sent
validate ==
    /\ xfer.impl = "fxp" /\ xfer.phase = "idle"
    /\ xfer' = [xfer EXCEPT !.phase = "sent"]
    /\ UNCHANGED <<conc, fnCall, ctorVars, authVars>>

\* validate of lib/cerbere.js reads this.cerbereURL, which the constructor
\* never sets (it sets cerbere_url): the call throws before the request
validateCheerio ==
    /\ xfer.impl = "cheerio" /\ xfer.phase = "idle"
    /\ xfer' = [xfer EXCEPT !.phase = "threw", !.uncaught = <<"TypeError">>]
    /\ UNCHANGED <<conc, fnCall, ctorVars, authVars>>

\* the response arrives: the handlers of res are installed
OnResponse ==
    /\ xfer.phase = "sent" /\ ~xfer.aborted
    /\ xfer' = [xfer EXCEPT !.phase = "response"]
    /\ UNCHANGED <<conc, fnCall, ctorVars, authVars>>

\* res.on("data"): the chunk is appended, and the connection is destroyed
\* when response is longer than the ceiling. Chunks that arrived together
\* are delivered one after the other, so a data event can follow the destroy.
OnData ==
    /\ xfer.phase = "response" /\ ~xfer.aborted
    /\ xfer.chunks < MaxChunks
    /\ \E n \in ChunkSizes :
          /\ xfer.received + n <= xfer.length
          /\ xfer' = [xfer EXCEPT !.received = @ + n, !.chunks = @ + 1,
                                  !.destroyed = (@ \/ xfer.received + n > MaxResponseLength)]
    /\ UNCHANGED <<conc, fnCall, ctorVars, authVars>>

\* res.on("end"): after the whole body, or, on the runtimes that end the
\* stream of a closed connection, after a body cut short by the server or
\* by the destroy or abort of the client
OnEnd ==
    /\ xfer.phase = "response"
    /\ LET r == OnEndHandler(ReceivedBody)
       IN  xfer' = [xfer EXCEPT !.phase = "ended",
                                !.parsed = Append(@, xfer.received),
                                !.callbacks = @ \o r.callbacks,
                                !.uncaught = @ \o r.uncaught]
    /\ UNCHANGED <<conc, fnCall, ctorVars, authVars>>

\* res.on("error")
OnResError ==
    /\ xfer.phase = "response"
    /\ xfer' = [xfer EXCEPT !.phase = "closed",
                            !.callbacks = Append(@, Callback("transport", undefined,
                                                             undefined, <<>>))]
    /\ UNCHANGED <<conc, fnCall, ctorVars, authVars>>

\* req.on("error"): callback(err); req.abort(). The socket can report its
\* error before the response, while it is read, and after its end, when the
\* end handler has run.
OnReqError ==
    /\ xfer.phase \in {"sent", "response", "ended"} /\ ~xfer.aborted
    /\ xfer' = [xfer EXCEPT !.aborted = TRUE,
                            !.phase = IF xfer.phase = "sent" THEN "closed" ELSE @,
                            !.callbacks = Append(@, Callback("transport", undefined,
                                                             undefined, <<>>))]
    /\ UNCHANGED <<conc, fnCall, ctorVars, authVars>>

NextValidate ==
    validate \/ validateCheerio \/ OnResponse \/ OnData \/ OnEnd \/ OnResError \/ OnReqError

SpecValidate == InitValidate /\ [][NextValidate]_vars

(***************************************************************************)
(* SpecParse: the functions of the clients: the two parseAttributes and    *)
(* the request body of validate                                            *)
(***************************************************************************)
InitParse ==
    /\ fnCall \in {[NoFnCall EXCEPT !.fn = "cheerio", !.input = c] :
                       c \in SeqsUpTo(Children, MaxChildren)}
                 \cup {[NoFnCall EXCEPT !.fn = "fxp", !.input = e] :
                       e \in SeqsUpTo(Entries, MaxChildren)}
                 \cup {[NoFnCall EXCEPT !.fn = "soapEnvelope", !.input = t] :
                       t \in SeqsUpTo(TicketChars, MaxTicketLen) \ {<<>>}}
    /\ CtorIdle /\ AuthIdle /\ ValidateIdle /\ ConcIdle

ParseCheerio ==
    /\ fnCall.fn = "cheerio" /\ ~fnCall.done
    /\ fnCall' = [fnCall EXCEPT !.done = TRUE,
                                !.result = parseAttributes_cheerio(fnCall.input)]
    /\ UNCHANGED <<ctorVars, authVars, xfer, conc>>

\* parseAttributes(elemAttributeStatement['Attribute']) on the Attribute
\* elements of a statement, as fxp.parse hands them over
ParseFxp ==
    /\ fnCall.fn = "fxp" /\ ~fnCall.done
    /\ fnCall' = [fnCall EXCEPT !.done = TRUE,
                                !.result = parseAttributes(Repeated(fnCall.input))]
    /\ UNCHANGED <<ctorVars, authVars, xfer, conc>>

\* validate builds the body of its request
BuildEnvelope ==
    /\ fnCall.fn = "soapEnvelope" /\ ~fnCall.done
    /\ fnCall' = [fnCall EXCEPT !.done = TRUE,
                                !.result = [k |-> "body",
                                            body |-> soapEnvelope("uuid", "instant",
                                                                  fnCall.input)]]
    /\ UNCHANGED <<ctorVars, authVars, xfer, conc>>

NextParse == ParseCheerio \/ ParseFxp \/ BuildEnvelope

SpecParse == InitParse /\ [][NextParse]_vars

(***************************************************************************)
(* SpecConcurrent: authenticate calls that overlap on one instance. A call *)
(* runs up to the validation request, its callback runs when the response  *)
(* is there, and verified runs when the application calls it; the calls of *)
(* other requests run in between.                                          *)
(***************************************************************************)
Configured ==
    [url |-> Str("https", TRUE, "cas.example", "/cas/public"),
     service |-> Str("https", TRUE, "app.example", "/"),
     propertyMap |-> pmFull]

ConcUrls == {<<P>>, <<P, Q, RetryEq, D(1), Amp, TicketEq, W(0)>>}
ConcRequests ==
    {[url |-> u, protocol |-> "http",
      headers |-> Headers(undefined, undefined, "app.example", undefined)] : u \in ConcUrls}
ConcResults ==
    {[err |-> "transport", username |-> undefined, attributes |-> <<>>],
     [err |-> "none", username |-> "alice",
      attributes |-> ("UTILISATEUR.ID" :> "42") @@ ("UTILISATEUR.MEL" :> "a@x.com")],
     [err |-> "none", username |-> "bob", attributes |-> ("UTILISATEUR.ID" :> "7")]}
ConcTimes == {Minute, Minute + HalfMinute}
ConcDone == {[err |-> FALSE, user |-> TRUE], [err |-> TRUE, user |-> FALSE]}

NewConcCall(req) == [pc |-> "new", req |-> req, res |-> NoResult, done |-> NoDone,
                     at |-> 0, out |-> <<>>, prev |-> <<>>, open |-> FALSE]

InitConcurrent ==
    /\ conc \in {[impl |-> i, self |-> Configured, calls |-> [c \in DOMAIN q |-> NewConcCall(q[c])]] :
                     i \in {"callback", "async"},
                     q \in SeqsUpTo(ConcRequests, MaxCalls) \ {<<>>}}
    /\ CtorIdle /\ AuthIdle /\ ValidateIdle /\ FnIdle

\* the calls one authenticate call of the deployed version makes up to verify
Outcome(c, self, io, t) ==
    IF c.impl = "async" THEN AuthenticateAsync(self.propertyMap, io.req, io.res, t)
    ELSE Authenticate(self.propertyMap, io.req, io.res, t)

\* authenticate up to the login redirect or to the validation request
authenticateBegin ==
    \E i \in DOMAIN conc.calls :
        LET c == conc.calls[i] IN
        /\ c.pc = "new"
        /\ conc' = IF HasTicket(c.req.url)
                   THEN [conc EXCEPT !.calls[i].pc = "validating"]
                   ELSE [conc EXCEPT
                           !.calls[i].pc = "done",
                           !.calls[i].out = Outcome(conc, conc.self,
                                                    [req |-> c.req, res |-> NoResult], 0),
                           !.self = SelfAfter(conc.self, NoResult)]
        /\ UNCHANGED <<ctorVars, authVars, xfer, fnCall>>

\* the validation of one call calls back and the rest of authenticate runs,
\* up to the call of verify. The callback version runs it once more when
\* validate calls back again: after the transport error of its request, or
\* with that error after the end of the response.
authenticateEnd ==
    \E i \in DOMAIN conc.calls, res \in ConcResults, t \in ConcTimes :
        LET c == conc.calls[i]
            out == Outcome(conc, conc.self, [req |-> c.req, res |-> res], t)
        IN
        /\ \/ c.pc = "validating"
           \/ c.open /\ "transport" \in {c.res.err, res.err}
        /\ conc' = [conc EXCEPT
                      !.calls[i].pc = IF VerifyLast(out) \/ VerifyLast(c.out)
                                      THEN "verifying" ELSE "done",
                      !.calls[i].res = res,
                      !.calls[i].at = t,
                      !.calls[i].prev = @ \o c.out,
                      !.calls[i].out = out,
                      !.calls[i].open = (c.pc = "validating" /\ conc.impl = "callback"),
                      !.self = SelfAfter(conc.self, res)]
        /\ UNCHANGED <<ctorVars, authVars, xfer, fnCall>>

\* the application calls the verified of one call
authenticateVerified ==
    \E i \in DOMAIN conc.calls, done \in ConcDone :
        /\ conc.calls[i].pc = "verifying"
        /\ conc' = IF VerifyLast(conc.calls[i].out)
                   THEN [conc EXCEPT
                           !.calls[i].pc = "done",
                           !.calls[i].done = done,
                           !.calls[i].out = Append(@, verified(done))]
                   ELSE [conc EXCEPT
                           !.calls[i].pc = "done",
                           !.calls[i].done = done,
                           !.calls[i].prev = Append(@, verified(done))]
        /\ UNCHANGED <<ctorVars, authVars, xfer, fnCall>>

NextConcurrent == authenticateBegin \/ authenticateEnd \/ authenticateVerified

SpecConcurrent == InitConcurrent /\ [][NextConcurrent]_vars

(***************************************************************************)
(* Properties                                                              *)
(***************************************************************************)
\* the last authenticate call had a ticket whose validation failed
Failed ==
    /\ call.out # <<>>
    /\ HasTicket(call.req.url)
    /\ call.res.err \in ErrKinds

Ops(out) == {out[i].op : i \in DOMAIN out}

\* the query parameters other than ticket and _cas_retry
IsOther(p) == p.name \notin {"ticket", "_cas_retry"}
OtherParams(url) == SelectSeq(ParseQuery(url), IsOther)

\* C1: a failed validation whose _cas_retry is absent or differs from the
\* time token gives a 307 redirect, and no fail, to the request URL with
\* the ticket parameter removed and _cas_retry set to the token.
C1_RetryRedirect ==
    (Failed /\ ~RetryEquals(call.req.url, call.token)) =>
        /\ call.out[1].op = "redirect"
        /\ call.out[1].status = 307
        /\ call.out[1].to = "self"
        /\ "fail" \notin Ops(call.out)
        /\ Pathname(call.out[1].url) = Pathname(call.req.url)
        /\ QueryAll(call.out[1].url, "ticket") = <<>>
        /\ QueryAll(call.out[1].url, "_cas_retry")
              = <<[name |-> "_cas_retry", value |-> <<D(call.token)>>]>>
        /\ OtherParams(call.out[1].url) = OtherParams(call.req.url)

\* C2: a failed validation whose _cas_retry equals the time token gives
\* fail with the validation error, and nothing else: no other host call in
\* this run of the callback or in an earlier one.
C2_FailOnly ==
    (Failed /\ RetryEquals(call.req.url, call.token)) =>
        call.prev \o call.out = <<Fail(call.res.err)>>

\* C3: a browser that follows every redirect gets at most one retry
\* redirect per time token: after a retry redirect that carries the marker
\* and no ticket, the next failure in the same window ends in fail.
C3_OneRetryPerWindow ==
    \A i, j \in DOMAIN failLog :
        (i < j /\ failLog[i].retried /\ failLog[i].marked /\ failLog[j].retried)
            => failLog[i].token # failLog[j].token

\* C4 as claimed: a transport error never gives the retry redirect.
C4_NoRetryOnTransport ==
    (Failed /\ call.res.err = "transport") => call.out[1].op # "redirect"

\* C4: a transport error is handled as every validation error is: the
\* retry redirect when _cas_retry differs from the time token, and fail
\* with the transport error when it equals the token.
C4_TransportLikeAnyError ==
    (Failed /\ call.res.err = "transport") =>
        IF RetryEquals(call.req.url, call.token)
        THEN call.out[1] = Fail("transport")
        ELSE call.out[1] = RedirectSelf(RetryUrl(call.req.url, call.token))

C4_Witness ==
    /\ Failed /\ call.res.err = "transport"
    /\ call.out[1].op = "redirect" /\ call.out[1].to = "self"

\* the document has the structure the handler reads its status from
ExpectedVariant(body) ==
    /\ body.wellFormed
    /\ Prop(Prop(Prop(Prop(Prop(body.json, "Envelope"), "Body"), "Response"),
                 "Status"), "StatusCode").t = "object"

\* C5: a body that is not a well-formed response of the expected variant
\* gives a parse error through the callback, and no body makes the handler
\* raise an exception.
C5_ParseErrorNoException ==
    (xfer.impl = "fxp" /\ xfer.phase = "ended") =>
        /\ xfer.uncaught = <<>>
        /\ ~ExpectedVariant(ReceivedBody) =>
              xfer.callbacks[Len(xfer.callbacks)].err = "parse"

\* C6: once the response exceeds the ceiling the connection is destroyed,
\* the body is never parsed, and the callback gets transport errors only.
C6_OversizedNeverParsed ==
    (xfer.received > MaxResponseLength) =>
        /\ xfer.destroyed
        /\ xfer.parsed = <<>>
        /\ \A i \in DOMAIN xfer.callbacks : xfer.callbacks[i].err = "transport"

\* the inputs of the Strategy constructor as the caller sees them
VerifyGiven == ctorArgs.optionsKind = "function" \/ ctorArgs.verify
CasUrlGiven == ctorArgs.optionsKind = "object" /\ ~Falsy(ctorArgs.casURL)
ServiceUrlGiven == ctorArgs.optionsKind = "object" /\ ~Falsy(ctorArgs.serviceURL)
TypeError(message) == Thrown("TypeError", message)
StrategyCalled == ctorArgs.fn = "Strategy" /\ ctorOut # Pending

\* C7 as claimed: the first missing input of verify, casURL, serviceURL is
\* named in a TypeError, and with all three the strategy is constructed.
C7_AsClaimed ==
    StrategyCalled =>
        /\ ~VerifyGiven
              => ctorOut = TypeError("CerbereStrategy requires a verify callback")
        /\ (VerifyGiven /\ ~CasUrlGiven)
              => ctorOut = TypeError("CerbereStrategy requires a casURL option")
        /\ (VerifyGiven /\ CasUrlGiven /\ ~ServiceUrlGiven)
              => ctorOut = TypeError("CerbereStrategy requires a serviceURL option")
        /\ (VerifyGiven /\ CasUrlGiven /\ ServiceUrlGiven)
              => (ctorOut.k = "Strategy" /\ ctorOut.name = "cerbere")

\* the casURL is one the Cerbere constructor accepts: as url.parse reads it,
\* its scheme is https and its host is not empty
ClientAccepts(u) ==
    LET read == url_parse(u) IN read.protocol = "https:" /\ read.hostname # ""

\* C7: as claimed when options is an object or the verify function; with
\* verify, casURL and serviceURL present the strategy is constructed and
\* named cerbere when the Cerbere client accepts casURL, and the client's
\* Error is thrown when it does not. A verify callback with options
\* undefined gives the TypeError of reading a property of undefined.
C7_FirstMissingInput ==
    StrategyCalled =>
        /\ ~VerifyGiven
              => ctorOut = TypeError("CerbereStrategy requires a verify callback")
        /\ (VerifyGiven /\ ctorArgs.optionsKind = "undefined")
              => ctorOut = TypeError("Cannot read property of undefined")
        /\ (VerifyGiven /\ ctorArgs.optionsKind # "undefined" /\ ~CasUrlGiven)
              => ctorOut = TypeError("CerbereStrategy requires a casURL option")
        /\ (VerifyGiven /\ CasUrlGiven /\ ~ServiceUrlGiven)
              => ctorOut = TypeError("CerbereStrategy requires a serviceURL option")
        /\ (VerifyGiven /\ CasUrlGiven /\ ServiceUrlGiven)
              => IF ClientAccepts(ctorArgs.casURL)
                 THEN ctorOut.k = "Strategy" /\ ctorOut.name = "cerbere"
                 ELSE ctorOut.k = "thrown" /\ ctorOut.type = "Error"

C7_Witness ==
    /\ StrategyCalled /\ VerifyGiven /\ CasUrlGiven /\ ServiceUrlGiven
    /\ ctorOut.k = "Strategy"

\* C8: constructing a client throws a configuration Error, and gives no
\* client, when the URL is missing, its scheme is not https or its host is
\* empty; a client exists only for an https URL with a host.
C8_FailFast ==
    /\ (ctorArgs.fn = "Cerbere" /\ ctorOut # Pending) =>
          IF ~Falsy(ctorArgs.casURL) /\ ClientAccepts(ctorArgs.casURL)
          THEN ctorOut.k = "Cerbere"
          ELSE ctorOut.k = "thrown" /\ ctorOut.type = "Error"
    /\ ctorOut.k = "Cerbere" =>
          (ctorOut.cerbere_url.protocol = "https:" /\ ctorOut.cerbere_url.hostname # "")
    /\ ctorOut.k = "Strategy" =>
          (ctorOut.cerbere.cerbere_url.protocol = "https:"
           /\ ctorOut.cerbere.cerbere_url.hostname # "")

C8_Witness ==
    /\ ctorArgs.fn = "Cerbere" /\ ctorArgs.casURL.scheme = "https"
    /\ ctorArgs.casURL.slashes /\ ctorArgs.casURL.host = ""
    /\ ctorOut.k = "thrown"

\* C9 as claimed: the token is floor(now / 60000).
C9_TokenIsFloor ==
    \A i \in DOMAIN failLog : failLog[i].token = failLog[i].at \div Minute

\* a and b lie in one window [60000 k - 30000, 60000 k + 30000)
SameRoundedWindow(a, b) ==
    \E k \in 0..(MaxHalfMinutes + 1) :
        /\ Minute * k - HalfMinute <= a /\ a < Minute * k + HalfMinute
        /\ Minute * k - HalfMinute <= b /\ b < Minute * k + HalfMinute

\* C9: the token of every failure, of a first run of the callback or of a
\* later one, is now / 60000 rounded to the nearest integer, so two
\* failures get the same token exactly when they fall in the same window
\* [60000 k - 30000, 60000 k + 30000).
C9_TokenIsRounded ==
    /\ Failed => /\ Minute * call.token - HalfMinute <= call.at
                 /\ call.at < Minute * call.token + HalfMinute
    /\ \A i \in DOMAIN failLog :
          /\ Minute * failLog[i].token - HalfMinute <= failLog[i].at
          /\ failLog[i].at < Minute * failLog[i].token + HalfMinute
    /\ \A i, j \in DOMAIN failLog :
          (failLog[i].token = failLog[j].token)
              <=> SameRoundedWindow(failLog[i].at, failLog[j].at)

C9_Witness ==
    \E i, j \in DOMAIN failLog :
        /\ failLog[i].at = Minute - 1 /\ failLog[j].at = Minute
        /\ failLog[i].token = failLog[j].token

\* C10: the profile handed to verify has the id of the attribute that
\* propertyMap.id names when it is present, the validated subject
\* identifier when it is absent, and never undefined.
C10_ProfileId ==
    \A i \in DOMAIN call.out :
        call.out[i].op = "verify" =>
            /\ call.out[i].profile.id # undefined
            /\ "id" \in propertyMap.has =>
                  call.out[i].profile.id =
                      IF propertyMap.id \in DOMAIN call.res.attributes
                      THEN call.res.attributes[propertyMap.id]
                      ELSE call.res.username

\* the attribute keys a propertyMap names
SeqKeys(entries, field) == {entries[i][field] : i \in DOMAIN entries}
ReferencedKeys(pm) ==
    (IF "id" \in pm.has THEN {pm.id} ELSE {})
    \cup (IF "name" \in pm.has THEN SeqKeys(pm.name, "key") ELSE {})
    \cup SeqKeys(pm.emails, "key") \cup SeqKeys(pm.telephones, "key")
    \cup UNION {SeqKeys(pm.adresses, f) : f \in {"street", "town", "streetcode", "country"}}
    \cup SeqKeys(pm.organizations, "code") \cup SeqKeys(pm.organizations, "name")
    \cup SeqKeys(pm.extras, "key")

\* the values a profile holds, section by section
NameValues(p) == {p.name[f] : f \in (DOMAIN p.name) \ {"displayName"}}
EmailValues(p) == {p.emails[i].value : i \in DOMAIN p.emails}
TelephoneValues(p) == {p.telephones[i].value : i \in DOMAIN p.telephones}
AdresseValues(p) ==
    UNION {{p.adresses[i].street, p.adresses[i].town, p.adresses[i].streetcode,
            p.adresses[i].country} : i \in DOMAIN p.adresses}
OrganizationValues(p) ==
    UNION {{p.organizations[i].code, p.organizations[i].name} : i \in DOMAIN p.organizations}
ExtraValues(p) == {p.extras[f] : f \in DOMAIN p.extras}
ProfileValues(p) ==
    {p.id} \cup NameValues(p) \cup EmailValues(p) \cup TelephoneValues(p)
    \cup AdresseValues(p) \cup OrganizationValues(p) \cup ExtraValues(p)

\* C11: the profile handed to verify has no field named by, and no value
\* taken from, an attribute key that the propertyMap does not name.
C11_UnreferencedDropped ==
    \A i \in DOMAIN call.out :
        call.out[i].op = "verify" =>
            \A key \in (DOMAIN call.res.attributes) \ ReferencedKeys(propertyMap) :
                /\ call.res.attributes[key] \notin ProfileValues(call.out[i].profile)
                /\ key \notin DOMAIN call.out[i].profile.extras

\* the sections of a profile that hold the value v
SectionsWith(p, v) ==
    (IF v \in NameValues(p) THEN {"name"} ELSE {})
    \cup (IF v \in EmailValues(p) THEN {"emails"} ELSE {})
    \cup (IF v \in TelephoneValues(p) THEN {"telephones"} ELSE {})
    \cup (IF v \in AdresseValues(p) THEN {"adresses"} ELSE {})
    \cup (IF v \in OrganizationValues(p) THEN {"organizations"} ELSE {})
    \cup {"extra " \o f : f \in {g \in DOMAIN p.extras : p.extras[g] = v}}

\* C12: an attribute that one section of the profile consumed is emitted
\* in no other section and in no top-level extra field of that profile.
C12_ConsumedOnce ==
    \A i \in DOMAIN call.out :
        call.out[i].op = "verify" =>
            \A key \in DOMAIN call.res.attributes :
                Cardinality(SectionsWith(call.out[i].profile,
                                         call.res.attributes[key])) <= 1

\* the types of the entries of a list, in order
Types(list) == [i \in DOMAIN list |-> list[i].type]

\* C13: each list section of the profile has one entry per propertyMap
\* entry of that section, in the order of the propertyMap and with the
\* type of its entry, whether the attribute is present or not.
C13_OneEntryPerMapEntry ==
    \A i \in DOMAIN call.out :
        call.out[i].op = "verify" =>
            LET p == call.out[i].profile IN
            /\ Types(p.emails) = Types(propertyMap.emails)
            /\ Types(p.telephones) = Types(propertyMap.telephones)
            /\ Types(p.adresses) = Types(propertyMap.adresses)
            /\ Types(p.organizations) = Types(propertyMap.organizations)
            /\ \A j \in DOMAIN p.adresses :
                  p.adresses[j].town = Get(call.res.attributes, propertyMap.adresses[j].town)
            /\ \A j \in DOMAIN p.organizations :
                  p.organizations[j].code =
                      Get(call.res.attributes, propertyMap.organizations[j].code)

C13_Witness ==
    \E i \in DOMAIN call.out :
        /\ call.out[i].op = "verify"
        /\ Len(propertyMap.emails) = 2
        /\ "UTILISATEUR.MEL" \notin DOMAIN call.res.attributes
        /\ Len(call.out[i].profile.emails) = 2
        /\ call.out[i].profile.emails[1] = [value |-> undefined, type |-> "principal"]

\* the indices of the children whose name gives the key
IndicesOf(children, key) == {i \in DOMAIN children : AttrName(children[i].name) = key}

\* the texts of the children at the indices I, in document order
RECURSIVE TextsAt(_, _, _)
TextsAt(children, I, i) ==
    IF i > Len(children) THEN <<>>
    ELSE (IF i \in I THEN <<children[i].text>> ELSE <<>>) \o TextsAt(children, I, i + 1)

\* C14: for every sequence of children the tagged-element parser gives a
\* result with one key per tag name of the children, and each key maps to
\* the list of the texts of all children with that name, in document
\* order: a repeated tag appends.
C14_RepeatedTagsAccumulate ==
    (fnCall.fn = "cheerio" /\ fnCall.done) =>
        /\ fnCall.result.k = "ok"
        /\ LET attributes == fnCall.result.attributes IN
           /\ DOMAIN attributes =
                 {AttrName(fnCall.input[i].name) : i \in DOMAIN fnCall.input}
           /\ \A key \in DOMAIN attributes :
                 attributes[key] = TextsAt(fnCall.input, IndicesOf(fnCall.input, key), 1)

\* the indices of the entries that carry the AttributeName
EntriesNamed(entries, name) ==
    {i \in DOMAIN entries : Prop(entries[i], "@_AttributeName") = JStr(name)}
Last(I) == CHOOSE i \in I : \A j \in I : j <= i

\* the AttributeValue text of an entry: the text of its AttributeValue
\* element, of the last one when it is repeated, and none without one
ValueText(entry) ==
    LET value == Prop(entry, "AttributeValue") IN
    CASE value.t = "string" -> value.s
      [] value.t = "object" -> Prop(value, "#text").s
      [] value.t = "array" -> value.a[Len(value.a)].s
      [] OTHER -> undefined

\* C15: for every sequence of attribute entries the SOAP/SAML parser gives
\* a result that maps each AttributeName of the entries to one value, the
\* AttributeValue text of the last entry with that name, and to no list.
C15_LastValueOnly ==
    (fnCall.fn = "fxp" /\ fnCall.done) =>
        /\ fnCall.result.k = "ok"
        /\ LET attributes == fnCall.result.attributes IN
           /\ DOMAIN attributes =
                 {n \in AttributeNames : EntriesNamed(fnCall.input, n) # {}}
           /\ \A n \in DOMAIN attributes :
                 attributes[n] = ValueText(fnCall.input[Last(EntriesNamed(fnCall.input, n))])

\* C16: the completion callback handed to verify drives one host outcome:
\* error(err) for an error, fail(info) for no error and no user, and
\* success(user, info) for no error and a user; never success with an
\* error or without a user.
C16_VerifiedOutcome ==
    \A i \in DOMAIN call.out :
        (call.out[i].op = "verify" /\ ~VerifyPending(call)) =>
            /\ Len(call.out) = i + 1
            /\ call.out[i + 1].op =
                  IF call.done.err THEN "error"
                  ELSE IF ~call.done.user THEN "fail" ELSE "success"
            /\ call.out[i + 1].op = "success" => (~call.done.err /\ call.done.user)

C16_Witness ==
    /\ Len(call.out) = 2 /\ call.out[1].op = "verify"
    /\ call.done = [err |-> TRUE, user |-> TRUE]
    /\ call.out[2].op = "error"

\* what one call gives when it is the only call on a new instance
Alone(c) ==
    LET out == Outcome(conc, Configured, [req |-> c.req, res |-> c.res], c.at) IN
    IF c.pc = "done" /\ out[Len(out)].op = "verify" THEN Append(out, verified(c.done))
    ELSE out

\* C17: whatever the interleaving of the calls on one instance, url,
\* service and propertyMap stay as configured, and each call gives what it
\* gives alone with its own request and validation result.
C17_CallsIndependent ==
    conc.impl # "none" =>
        /\ conc.self = Configured
        /\ \A i \in DOMAIN conc.calls :
              conc.calls[i].pc \in {"verifying", "done"}
                  => conc.calls[i].out = Alone(conc.calls[i])

C17_Witness ==
    /\ Len(conc.calls) = 2
    /\ conc.calls[1].pc = "done" /\ conc.calls[2].pc = "done"
    /\ conc.calls[1].res.username = "alice" /\ conc.calls[2].res.username = "bob"
    /\ conc.calls[1].out[1].op = "verify" /\ conc.calls[2].out[1].op = "verify"
    /\ conc.calls[2].out[1].profile.emails[1].type = "principal"

\* a character as XML text
XmlEscape(ch) ==
    CASE ch = "<" -> "&lt;"
      [] ch = ">" -> "&gt;"
      [] ch = "&" -> "&amp;"
      [] OTHER -> ch
Escaped(text) == [i \in DOMAIN text |-> XmlEscape(text[i])]

\* C18: the request body holds the ticket XML-escaped as the text of the
\* AssertionArtifact element: between the tags of the element there is the
\* escaped ticket and no character that opens or closes a tag.
C18_TicketEscaped ==
    (fnCall.fn = "soapEnvelope" /\ fnCall.done) =>
        LET body == fnCall.result.body
            first == Len(EnvelopeOpen) + Len(EnvelopeInstant) + Len(ArtifactOpen) + 3
            last == Len(body) - Len(ArtifactClose)
        IN  /\ SubSeq(body, first, last) = Escaped(fnCall.input)
            /\ \A i \in first..last : body[i] \notin {"<", ">", "&"}

\* the last authenticate call was for a URL without a ticket parameter
NoTicketParameter == call.out # <<>> /\ QueryAll(call.req.url, "ticket") = <<>>

\* C19: for a request URL without a ticket parameter authenticate makes
\* one host call, a 307 redirect to casURL/login?service= with the encoded
\* service URL; it validates nothing and calls none of verify, fail,
\* success, error; the service URL has the scheme, host and path of the
\* request and no query parameter. The async version takes the login URL
\* from its client.
C19_LoginRedirect ==
    NoTicketParameter =>
        /\ Len(call.out) = 1
        /\ call.out[1].op = "redirect" /\ call.out[1].status = 307 /\ call.out[1].to = "cas"
        /\ call.res = NoResult
        /\ impl = "callback" =>
              call.out[1].location =
                  [base |-> CasURL, path |-> "/login",
                   service |-> encodeURIComponent(call.out[1].service)]
        /\ call.out[1].service.protocol =
              Or(call.req.headers.xfproto, call.req.protocol)
        /\ call.out[1].service.host = Or(call.req.headers.xfhost, call.req.headers.host)
        /\ call.out[1].service.pathname = PathString(call.req.url)
        /\ call.out[1].service.query = <<>>

C19_Witness ==
    /\ NoTicketParameter
    /\ OtherParams(call.req.url) = <<>> /\ QueryAll(call.req.url, "_cas_retry") # <<>>
    /\ impl = "callback"
    /\ call.out[1].op = "redirect" /\ call.out[1].to = "cas"
    /\ call.out[1].service.pathname = "/p"

\* the host outcomes among the calls authenticate made
Outcomes(out) == {i \in DOMAIN out : out[i].op \in {"redirect", "fail", "success", "error"}}

\* C20: an authenticate call for a request with a ticket ends in one host
\* outcome, counted over every run of its callback, and raises no
\* exception; after a failed validation the redirect or the fail is all the
\* call does: no profile, no verify.
C20_OneOutcome ==
    (call.out # <<>> /\ HasTicket(call.req.url) /\ ~VerifyPending(call)) =>
        /\ Cardinality(Outcomes(call.prev \o call.out)) = 1
        /\ "throw" \notin Ops(call.out)
        /\ Failed => (Len(call.out) = 1 /\ "verify" \notin Ops(call.out))

\* C21: whatever the order of the transport events of one validate call,
\* the callback passed to validate is invoked at most once.
C21_CallbackAtMostOnce == Len(xfer.callbacks) <= 1

====
